---- MODULE Spec2Model ----
(***************************************************************************)
(* A model of runc's libcontainer factory (factory_linux.go), of the       *)
(* rootless validator (configs/validate/rootless.go) and of the rootless   *)
(* cgroup manager (cgroups/rootless/rootless.go).                          *)
(*                                                                         *)
(* Go strings are TLA+ strings, read with Len and SubSeq.  The filesystem  *)
(* is a set of directories and a map of regular files; its calls fail only *)
(* on a missing or an existing path (no EACCES, no ENAMETOOLONG).          *)
(***************************************************************************)
EXTENDS Integers, Sequences, FiniteSets, TLC

VARIABLES
    euid,        \* os.Geteuid() of the running process
    egid,        \* os.Getegid() of the running process
    l,           \* the process's LinuxFactory: Root, NewCgroupsManager
    dirs,        \* the directories that exist
    files,       \* the regular files that exist: path -> contents
    containers,  \* the linuxContainer objects the process holds
    created,     \* history: the ids whose Create returned a Container
    ret,         \* the last call's result
    calls,       \* the Create calls in flight (concurrent specification)
    arg,         \* the input of the function under test (function specifications)
    pipe,        \* the handoff channel between the parent and the child init
    child        \* the child init process running StartInitialization

vars == <<euid, egid, l, dirs, files, containers, created, ret, calls, arg, pipe, child>>

\* the nil error
Nil == "nil"
\* the nil pointer, the nil map
NilPtr == [nil |-> TRUE]
\* no handoff channel, no child init process (the process is not an init)
NoPipe == [msgs |-> <<>>, closed |-> FALSE, peer |-> "none", data |-> ""]
NoChild == [pc |-> "none"]

-----------------------------------------------------------------------------
(* Bounds of the model.                                                    *)

\* the most UID (and GID) mappings of an enumerated config
MaxMappings == 2
\* the most mounts of an enumerated config
MaxMounts == 2
\* the most concurrent Create calls
MaxCallers == 2
\* the most fields of an enumerated Resources that differ from the default
MaxSetFields == 2

-----------------------------------------------------------------------------
(* strings                                                                 *)

Char(s, i) == SubSeq(s, i, i)

HasPrefix(s, prefix) ==
    /\ Len(s) >= Len(prefix)
    /\ SubSeq(s, 1, Len(prefix)) = prefix

Contains(s, substr) ==
    \E i \in 1..(Len(s) - Len(substr) + 1) : SubSeq(s, i, i + Len(substr) - 1) = substr

\* the first index >= i of s that holds the character sep, or 0
IndexFrom(s, sep, i) ==
    LET hits == { j \in i..Len(s) : Char(s, j) = sep }
    IN  IF hits = {} THEN 0
        ELSE CHOOSE j \in hits : \A k \in hits : j <= k

RECURSIVE Split(_, _)
\* strings.Split for a separator of one character
Split(s, sep) ==
    LET i == IndexFrom(s, sep, 1)
    IN  IF i = 0 THEN <<s>>
        ELSE <<SubSeq(s, 1, i - 1)>> \o Split(SubSeq(s, i + 1, Len(s)), sep)

RECURSIVE Repeat(_, _)
\* strings.Repeat
Repeat(s, n) ==
    IF n = 0 THEN ""
    ELSE LET h == Repeat(s, n \div 2)
         IN  IF n % 2 = 0 THEN h \o h ELSE h \o h \o s

RECURSIVE JoinSeq(_, _)
\* strings.Join
JoinSeq(parts, sep) ==
    IF Len(parts) = 0 THEN ""
    ELSE IF Len(parts) = 1 THEN parts[1]
    ELSE parts[1] \o sep \o JoinSeq(Tail(parts), sep)

-----------------------------------------------------------------------------
(* paths: filepath.Join and filepath.Clean on rooted paths                 *)

RECURSIVE CleanParts(_, _)
\* Clean, one component at a time: "" and "." are dropped, ".." drops the
\* component before it (and is itself dropped at the root)
CleanParts(parts, acc) ==
    IF Len(parts) = 0 THEN acc
    ELSE LET p == Head(parts)
         IN  IF p = "" \/ p = "." THEN CleanParts(Tail(parts), acc)
             ELSE IF p = ".."
                  THEN CleanParts(Tail(parts),
                                  IF Len(acc) = 0 THEN acc
                                  ELSE SubSeq(acc, 1, Len(acc) - 1))
             ELSE CleanParts(Tail(parts), Append(acc, p))

PathParts(path) == CleanParts(Split(path, "/"), <<>>)

PathOf(parts) == "/" \o JoinSeq(parts, "/")

Clean(path) == PathOf(PathParts(path))

\* filepath.Join(a, b) for a rooted a
Join(a, b) == Clean(a \o "/" \o b)

\* path and the directories above it
Ancestors(path) ==
    LET parts == PathParts(path)
    IN  { PathOf(SubSeq(parts, 1, n)) : n \in 0..Len(parts) }

-----------------------------------------------------------------------------
(* container ids: idRegex, maxIdLen, validateID                            *)

maxIdLen == 1024

\* \w of the regular expression
WordChars ==
    { "a","b","c","d","e","f","g","h","i","j","k","l","m",
      "n","o","p","q","r","s","t","u","v","w","x","y","z",
      "A","B","C","D","E","F","G","H","I","J","K","L","M",
      "N","O","P","Q","R","S","T","U","V","W","X","Y","Z",
      "0","1","2","3","4","5","6","7","8","9","_" }

\* the character class [\w+-\.]: the word characters and the range from
\* '+' to '.', which is + , - .
idRegexClass == WordChars \cup { "+", ",", "-", "." }

\* idRegex.MatchString(id) for ^[\w+-\.]+$
idRegexMatch(id) ==
    /\ Len(id) >= 1
    /\ \A i \in 1..Len(id) : Char(id, i) \in idRegexClass

validateIDNoLength(id) ==
    IF ~idRegexMatch(id) THEN "InvalidIdFormat" ELSE Nil

\* the error kind validateID returns, or Nil
validateID(id) ==
    IF ~idRegexMatch(id) THEN "InvalidIdFormat"
    ELSE IF Len(id) > maxIdLen THEN "InvalidIdFormat"
    ELSE Nil

-----------------------------------------------------------------------------
(* configs.Config, as far as the factory and the validators read it        *)

\* configs.IDMap values of the enumerated configs
IDMaps ==
    { [ContainerID |-> 0, HostID |-> 1000, Size |-> 1],
      [ContainerID |-> 0, HostID |-> 1000, Size |-> 2],
      [ContainerID |-> 0, HostID |-> 0,    Size |-> 1],
      [ContainerID |-> 0, HostID |-> 1001, Size |-> 1],
      [ContainerID |-> 1, HostID |-> 1000, Size |-> 1] }

SeqsUpTo(S, n) == UNION { [1..k -> S] : k \in 0..n }

RECURSIVE hostIDFromMapping(_, _)
\* Config.hostIDFromMapping: <<host id, found>>
hostIDFromMapping(containerID, uMap) ==
    IF Len(uMap) = 0 THEN <<-1, FALSE>>
    ELSE LET m == Head(uMap)
         IN  IF containerID >= m.ContainerID /\ containerID <= m.ContainerID + m.Size - 1
             THEN <<m.HostID + (containerID - m.ContainerID), TRUE>>
             ELSE hostIDFromMapping(containerID, Tail(uMap))

\* Config.HostUID: <<uid, err>>
HostUID(config) ==
    IF "NEWUSER" \in config.Namespaces
    THEN IF Len(config.UidMappings) = 0
         THEN <<-1, "User namespaces enabled, but no user mappings found.">>
         ELSE LET r == hostIDFromMapping(0, config.UidMappings)
              IN  IF ~r[2]
                  THEN <<-1, "User namespaces enabled, but no root user mapping found.">>
                  ELSE <<r[1], Nil>>
    ELSE <<0, Nil>>

\* Config.HostGID: <<gid, err>>
HostGID(config) ==
    IF "NEWUSER" \in config.Namespaces
    THEN IF Len(config.GidMappings) = 0
         THEN <<-1, "User namespaces enabled, but no gid mappings found.">>
         ELSE LET r == hostIDFromMapping(0, config.GidMappings)
              IN  IF ~r[2]
                  THEN <<-1, "User namespaces enabled, but no root group mapping found.">>
                  ELSE <<r[1], Nil>>
    ELSE <<0, Nil>>

-----------------------------------------------------------------------------
(* isRootless                                                              *)

isRootlessEuidFirst(config, uid, gid) ==
    IF uid = 0 THEN <<FALSE, Nil>>
    ELSE IF HostUID(config)[2] # Nil THEN <<FALSE, HostUID(config)[2]>>
    ELSE IF "NEWUSER" \notin config.Namespaces
         THEN <<FALSE, "rootless containers require user namespaces">>
    ELSE IF HostUID(config)[1] # uid
         THEN <<FALSE, "rootless containers cannot map container root to a different host user">>
    ELSE IF HostGID(config)[2] # Nil THEN <<FALSE, HostGID(config)[2]>>
    ELSE IF HostGID(config)[1] # gid
         THEN <<FALSE, "rootless containers cannot map container root to a different host group">>
    ELSE IF Len(config.UidMappings) # 1 \/ config.UidMappings[1].Size # 1
         THEN <<FALSE, "rootless containers cannot map more than one user">>
    ELSE IF Len(config.GidMappings) # 1 \/ config.GidMappings[1].Size # 1
         THEN <<FALSE, "rootless containers cannot map more than one group">>
    ELSE <<TRUE, Nil>>

isRootlessNoGroupCheck(config, uid, gid) ==
    LET hu == HostUID(config)
        hg == HostGID(config)
    IN  IF hu[2] # Nil THEN <<FALSE, hu[2]>>
        ELSE IF uid # 0 /\ "NEWUSER" \notin config.Namespaces
             THEN <<FALSE, "rootless containers require user namespaces">>
        ELSE IF uid # 0 /\ hu[1] # uid
             THEN <<FALSE, "rootless containers cannot map container root to a different host user">>
        ELSE IF hg[2] # Nil THEN <<FALSE, hg[2]>>
        ELSE IF uid # 0 /\ (Len(config.UidMappings) # 1 \/ config.UidMappings[1].Size # 1)
             THEN <<FALSE, "rootless containers cannot map more than one user">>
        ELSE IF uid # 0 /\ (Len(config.GidMappings) # 1 \/ config.GidMappings[1].Size # 1)
             THEN <<FALSE, "rootless containers cannot map more than one group">>
        ELSE <<uid # 0, Nil>>

\* isRootless(config) in a process of effective ids uid, gid: <<rootless, err>>
isRootless(config, uid, gid) ==
    LET hu == HostUID(config)
        hg == HostGID(config)
        \* the value of the local rootless once the euid block is passed
        rootless == uid # 0
    IN  IF hu[2] # Nil THEN <<FALSE, hu[2]>>
        ELSE IF uid # 0 /\ "NEWUSER" \notin config.Namespaces
             THEN <<FALSE, "rootless containers require user namespaces">>
        ELSE IF uid # 0 /\ hu[1] # uid
             THEN <<FALSE, "rootless containers cannot map container root to a different host user">>
        ELSE IF hg[2] # Nil THEN <<FALSE, hg[2]>>
        ELSE IF rootless /\ hg[1] # gid
             THEN <<FALSE, "rootless containers cannot map container root to a different host group">>
        ELSE IF rootless /\ (Len(config.UidMappings) # 1 \/ config.UidMappings[1].Size # 1)
             THEN <<FALSE, "rootless containers cannot map more than one user">>
        ELSE IF rootless /\ (Len(config.GidMappings) # 1 \/ config.GidMappings[1].Size # 1)
             THEN <<FALSE, "rootless containers cannot map more than one group">>
        ELSE <<rootless, Nil>>

-----------------------------------------------------------------------------
(* validate.RootlessValidator                                              *)

\* the fields of configs.Resources, in the order of the struct
ResourceFields ==
    << "AllowAllDevices", "AllowedDevices", "DeniedDevices", "Devices",
       "Memory", "MemoryReservation", "MemorySwap", "KernelMemory",
       "KernelMemoryTCP", "CpuShares", "CpuQuota", "CpuPeriod",
       "CpuRtRuntime", "CpuRtPeriod", "CpusetCpus", "CpusetMems",
       "PidsLimit", "BlkioWeight", "BlkioLeafWeight", "BlkioWeightDevice",
       "BlkioThrottleReadBpsDevice", "BlkioThrottleWriteBpsDevice",
       "BlkioThrottleReadIOPSDevice", "BlkioThrottleWriteIOPSDevice",
       "Freezer", "HugetlbLimit", "OomKillDisable", "MemorySwappiness",
       "NetPrioIfpriomap", "NetClsClassid" >>

NumField == Len(ResourceFields)

\* A Resources value is [nonDefault |-> S], S the indexes of its fields that
\* are not reflect.DeepEqual to the same field of the zero Resources.
ZeroResources == [nonDefault |-> {}]

nonDefaultError(name) ==
    "cannot specify resource limits in rootless container: field \"" \o name
        \o "\" is non-default"

RECURSIVE cgroupFields(_, _)
\* the loop of RootlessValidator.cgroup over the fields i, i+1, ..
cgroupFields(left, i) ==
    IF i > NumField THEN Nil
    ELSE IF Contains(ResourceFields[i], "Device")
         THEN cgroupFields(left, i + 1)
    ELSE IF i \in left.nonDefault
         THEN nonDefaultError(ResourceFields[i])
    ELSE cgroupFields(left, i + 1)

\* RootlessValidator.cgroup: the error, or Nil
cgroup(config) ==
    IF config.Cgroups = NilPtr \/ config.Cgroups.Resources = NilPtr THEN Nil
    ELSE IF config.Cgroups.Resources = ZeroResources THEN Nil
    ELSE cgroupFields(config.Cgroups.Resources, 1)

RECURSIVE mountOptsUidOnly(_)
mountOptsUidOnly(opts) ==
    IF Len(opts) = 0 THEN Nil
    ELSE LET opt == Head(opts)
         IN  IF HasPrefix(opt, "uid=") /\ opt # "uid=0"
             THEN "cannot specify uid= mount options in rootless containers where argument isn't 0"
             ELSE mountOptsUidOnly(Tail(opts))

RECURSIVE mountOpts(_)
\* the inner loop of RootlessValidator.mount over the options of one mount
mountOpts(opts) ==
    IF Len(opts) = 0 THEN Nil
    ELSE LET opt == Head(opts)
         IN  IF HasPrefix(opt, "uid=") /\ opt # "uid=0"
             THEN "cannot specify uid= mount options in rootless containers where argument isn't 0"
             ELSE IF HasPrefix(opt, "gid=") /\ opt # "gid=0"
             THEN "cannot specify gid= mount options in rootless containers where argument isn't 0"
             ELSE mountOpts(Tail(opts))

RECURSIVE mountLoop(_)
\* the outer loop of RootlessValidator.mount over config.Mounts
mountLoop(mounts) ==
    IF Len(mounts) = 0 THEN Nil
    ELSE LET e == mountOpts(Split(Head(mounts).Data, ","))
         IN  IF e # Nil THEN e ELSE mountLoop(Tail(mounts))

\* RootlessValidator.mount: the error, or Nil
mount(config) == mountLoop(config.Mounts)

\* RootlessValidator.Validate: the error, or Nil
RootlessValidate(config) ==
    IF config = NilPtr THEN Nil
    ELSE IF mount(config) # Nil THEN mount(config)
    ELSE IF cgroup(config) # Nil THEN cgroup(config)
    ELSE Nil

-----------------------------------------------------------------------------
(* rootless.Manager                                                        *)

ApplyChecksResolvedPaths(m, pid) ==
    IF m.Paths # NilPtr
    THEN "cannot change cgroup path in rootless container"
    ELSE Nil

\* Manager.Apply(pid): the error, or Nil
Apply(m, pid) ==
    IF m.Cgroups = NilPtr THEN Nil
    ELSE IF m.Cgroups.Paths # NilPtr
         THEN "cannot change cgroup path in rootless container"
    ELSE Nil

\* Manager.GetPaths
GetPaths(m) == m.Paths

-----------------------------------------------------------------------------
(* the inputs of the function specification                                *)

Uids == { 0, 1000 }
Gids == { 0, 1000 }

NamespaceSets == { {"NEWNS"}, {"NEWNS", "NEWUSER"} }

\* a cgroup path map: nil, empty, or one subsystem
PathMaps == { NilPtr, <<>>, [cpu |-> "/sys/fs/cgroup/cpu/user/c"] }

RECURSIVE FieldSetsUpTo(_)
\* the sets of at most n field indexes
FieldSetsUpTo(n) ==
    IF n = 0 THEN { {} }
    ELSE LET P == FieldSetsUpTo(n - 1)
         IN  P \cup { S \cup {i} : S \in P, i \in 1..NumField }

ResourcesWide == { [nonDefault |-> S] : S \in FieldSetsUpTo(MaxSetFields) }

CgroupsWide ==
    {NilPtr} \cup [Paths : PathMaps, Resources : {NilPtr} \cup ResourcesWide]

CgroupsNarrow ==
    {NilPtr} \cup [Paths : PathMaps, Resources : {NilPtr, ZeroResources}]

\* the option lists a mount's Data is joined from
MountOptionLists ==
    { <<>>, <<"ro">>, <<"uid=0">>, <<"uid=0", "gid=0">>, <<"mode=755", "uid=1000">>,
      <<"gid=5">>, <<"uid=00">>, <<"gid=">>, <<"nouid=5", "fsgid=7">>,
      <<"size=1k", "gid=0", "nosuid">> }

MountOf(opts) == [Data |-> JoinSeq(opts, ",")]

MountsOf(optLists) == [i \in 1..Len(optLists) |-> MountOf(optLists[i])]

BaseConfig ==
    [wellFormed |-> TRUE, Namespaces |-> {"NEWNS"}, UidMappings |-> <<>>,
     GidMappings |-> <<>>, Cgroups |-> NilPtr, Mounts |-> <<>>]

\* the configs isRootless is applied to
RootlessConfigs ==
    { [BaseConfig EXCEPT !.Namespaces = ns, !.UidMappings = um, !.GidMappings = gm] :
        ns \in NamespaceSets,
        um \in SeqsUpTo(IDMaps, MaxMappings),
        gm \in SeqsUpTo(IDMaps, MaxMappings) }

FnArgs ==
    { [fn |-> "isRootless", config |-> c] : c \in RootlessConfigs }
    \cup { [fn |-> "Validate", config |-> NilPtr] }
    \cup { [fn |-> "Validate", optLists |-> ol,
            config |-> [BaseConfig EXCEPT !.Mounts = MountsOf(ol), !.Cgroups = cg]] :
             ol \in SeqsUpTo(MountOptionLists, MaxMounts), cg \in CgroupsNarrow }
    \cup { [fn |-> "Validate", optLists |-> ol,
            config |-> [BaseConfig EXCEPT !.Mounts = MountsOf(ol), !.Cgroups = cg]] :
             ol \in { <<>>, << <<"uid=0">> >>, << <<"gid=5">> >> }, cg \in CgroupsWide }
    \cup { [fn |-> "Apply", pid |-> pid, m |-> [Cgroups |-> cg, Paths |-> paths]] :
             pid \in { 1, 4242 }, cg \in CgroupsNarrow, paths \in PathMaps }

NoCall == [op |-> "none"]

FnInit ==
    /\ arg \in FnArgs
    /\ euid \in Uids
    /\ egid \in Gids
    /\ arg.fn # "isRootless" => euid = 0 /\ egid = 0
    /\ l = [Root |-> "", NewCgroupsManager |-> "fs"]
    /\ dirs = { "/" }
    /\ files = <<>>
    /\ containers = {}
    /\ created = {}
    /\ calls = <<>>
    /\ ret = NoCall
    /\ pipe = NoPipe
    /\ child = NoChild

\* a call of isRootless(arg.config)
CallIsRootless ==
    /\ arg.fn = "isRootless"
    /\ ret = NoCall
    /\ LET r == isRootless(arg.config, euid, egid)
       IN  ret' = [op |-> "isRootless", rootless |-> r[1], err |-> r[2]]
    /\ UNCHANGED <<euid, egid, l, dirs, files, containers, created, calls, arg, pipe, child>>

\* a call of new(RootlessValidator).Validate(arg.config)
CallValidate ==
    /\ arg.fn = "Validate"
    /\ ret = NoCall
    /\ ret' = [op |-> "Validate", err |-> RootlessValidate(arg.config)]
    /\ UNCHANGED <<euid, egid, l, dirs, files, containers, created, calls, arg, pipe, child>>

\* a call of arg.m.Apply(arg.pid) on a rootless.Manager
CallApply ==
    /\ arg.fn = "Apply"
    /\ ret = NoCall
    /\ ret' = [op |-> "Apply", err |-> Apply(arg.m, arg.pid)]
    /\ UNCHANGED <<euid, egid, l, dirs, files, containers, created, calls, arg, pipe, child>>

FnNext == CallIsRootless \/ CallValidate \/ CallApply

FnSpec == FnInit /\ [][FnNext]_vars

-----------------------------------------------------------------------------
(* Properties of isRootless, RootlessValidator and rootless.Manager,       *)
(* checked under FnSpec.                                                   *)

\* whether the mappings are the one mapping of container root to host id
\* `host`, of size 1
SingleRootMapping(maps, host) ==
    /\ Len(maps) = 1
    /\ maps[1].Size = 1
    /\ maps[1].ContainerID = 0
    /\ maps[1].HostID = host

\* whether some mapping covers container id 0
CoversRoot(maps) ==
    \E i \in 1..Len(maps) :
        maps[i].ContainerID <= 0 /\ 0 <= maps[i].ContainerID + maps[i].Size - 1

\* C4: with a non-zero effective UID, isRootless returns (true, nil) exactly
\* when the config has a user namespace and its UID and GID mappings are each
\* one mapping of size 1 from container root to the effective UID and GID;
\* in every other case it returns an error, never (false, nil).
C4_NonRootIsRootless ==
    (ret.op = "isRootless" /\ euid # 0) =>
        LET c  == arg.config
            ok == /\ "NEWUSER" \in c.Namespaces
                  /\ SingleRootMapping(c.UidMappings, euid)
                  /\ SingleRootMapping(c.GidMappings, egid)
        IN  /\ (ret.rootless /\ ret.err = Nil) <=> ok
            /\ ~ok => (~ret.rootless /\ ret.err # Nil)

\* a non-root call that returned (true, nil)
C4_Witness ==
    ret.op = "isRootless" /\ euid # 0 /\ ret.rootless /\ ret.err = Nil

\* C5 as stated: with effective UID 0, isRootless returns (false, nil) for
\* every configuration.
C5_RootAlwaysFalseNil ==
    (ret.op = "isRootless" /\ euid = 0) => (~ret.rootless /\ ret.err = Nil)

\* C5 amended: with effective UID 0, isRootless never returns true; it
\* returns (false, nil) exactly when the config has no user namespace or its
\* UID and its GID mappings both cover container root, and (false, err) when
\* a user namespace lacks a mapping of container root.
C5_RootNeverRootless ==
    (ret.op = "isRootless" /\ euid = 0) =>
        LET c == arg.config
        IN  /\ ~ret.rootless
            /\ ret.err = Nil <=>
                  \/ "NEWUSER" \notin c.Namespaces
                  \/ CoversRoot(c.UidMappings) /\ CoversRoot(c.GidMappings)

\* a root call on a user namespace without a root mapping, which is an error
C5_Witness ==
    /\ ret.op = "isRootless" /\ euid = 0
    /\ "NEWUSER" \in arg.config.Namespaces
    /\ ret.err # Nil

\* the fields of Resources that hold device-access rules
DeviceRuleFields == { "AllowAllDevices", "AllowedDevices", "DeniedDevices", "Devices" }

\* C6: RootlessValidator.Validate rejects every config whose Resources has a
\* field, other than the device-access rules, that differs from its default
\* (per-device block-I/O limits included).
C6_RejectsNonDefaultLimits ==
    ( /\ ret.op = "Validate"
      /\ arg.config # NilPtr
      /\ arg.config.Cgroups # NilPtr
      /\ arg.config.Cgroups.Resources # NilPtr
      /\ \E i \in arg.config.Cgroups.Resources.nonDefault :
            ResourceFields[i] \notin DeviceRuleFields )
    => ret.err # Nil

Digits == { "0", "1", "2", "3", "4", "5", "6", "7", "8", "9" }

\* whether opt is key followed by a decimal number that is not 0
NonZeroIdOption(opt, key) ==
    /\ HasPrefix(opt, key)
    /\ Len(opt) > Len(key)
    /\ \A i \in (Len(key) + 1)..Len(opt) : Char(opt, i) \in Digits
    /\ \E i \in (Len(key) + 1)..Len(opt) : Char(opt, i) # "0"

\* the options the mounts of the config under test were written with
OptionsUnderTest ==
    UNION { { arg.optLists[i][j] : j \in 1..Len(arg.optLists[i]) } :
              i \in 1..Len(arg.optLists) }


\* a call of Validate on a config whose resource limits are default
ValidateWithDefaultLimits ==
    /\ ret.op = "Validate"
    /\ arg.config # NilPtr
    /\ \/ arg.config.Cgroups = NilPtr
       \/ arg.config.Cgroups.Resources \in { NilPtr, ZeroResources }

\* C7 as stated: with default resource limits, Validate rejects a config iff
\* some mount carries an option uid=N or gid=N with the number N not 0.
C7_RejectsIffNonZeroId ==
    ValidateWithDefaultLimits =>
        (ret.err # Nil <=>
            \E opt \in OptionsUnderTest :
                NonZeroIdOption(opt, "uid=") \/ NonZeroIdOption(opt, "gid="))

\* C7 amended: with default resource limits, Validate rejects a config iff
\* some mount carries an option that starts with uid= or gid= and is not
\* the text uid=0 or gid=0: every uid=N, gid=N with N not 0 is rejected, and
\* so is a zero written any other way (uid=00) or left out (gid=).
C7_RejectsIffNotLiteralZero ==
    ValidateWithDefaultLimits =>
        (ret.err # Nil <=>
            \E opt \in OptionsUnderTest :
                \/ HasPrefix(opt, "uid=") /\ opt # "uid=0"
                \/ HasPrefix(opt, "gid=") /\ opt # "gid=0")

\* a config rejected for a non-zero gid= option, with no uid= option in it
C7_Witness ==
    /\ ValidateWithDefaultLimits
    /\ ret.err # Nil
    /\ "gid=5" \in OptionsUnderTest
    /\ \A opt \in OptionsUnderTest : ~HasPrefix(opt, "uid=")

\* C8 as stated: Apply returns no error when the manager was constructed
\* with nil resolved paths, and an error when it was constructed with
\* non-nil resolved paths.
C8_ApplyFollowsResolvedPaths ==
    ret.op = "Apply" => (ret.err # Nil <=> arg.m.Paths # NilPtr)

\* C8 amended: Apply returns an error exactly when the manager's cgroup
\* config is not nil and carries non-nil Paths (the paths the config asks to
\* join); the resolved paths the manager was constructed with and the pid
\* do not matter.
C8_ApplyFollowsConfigPaths ==
    ret.op = "Apply" =>
        (ret.err # Nil <=>
            (arg.m.Cgroups # NilPtr /\ arg.m.Cgroups.Paths # NilPtr))

\* Apply without error on a manager constructed with non-nil resolved paths
C8_Witness ==
    ret.op = "Apply" /\ arg.m.Paths # NilPtr /\ ret.err = Nil

-----------------------------------------------------------------------------
(* the factory: New, Create, Load                                          *)

stateFilename == "state.json"

\* the roots a factory is built with
Roots == { "", "/run/runc" }

\* the ids Create and Load are called with
Ids ==
    { "c_1.+,-Z", Repeat("a", maxIdLen),
      ".", "..",
      "", "c1/x", "*", Repeat("a", maxIdLen + 1) }

\* The functions of ids and paths, tabulated over the ids and roots of the
\* model (an id of maxIdLen characters is read once, not in every state).
validateIDOf == [id \in Ids |-> validateID(id)]

containerRootOf == [root \in Roots, id \in Ids |-> Join(root, id)]

stateFileOf == [root \in Roots, id \in Ids |-> Join(Join(root, id), stateFilename)]

AncestorsOf ==
    [path \in Roots \cup { containerRootOf[root, id] : root \in Roots, id \in Ids }
        |-> Ancestors(path)]

\* the directories os.MkdirAll(path) leaves in existence
MkdirAll(path) == dirs \cup AncestorsOf[path]

\* the cgroup manager a factory's NewCgroupsManager (set by Cgroupfs,
\* SystemdCgroups or RootlessCgroups) returns: its type and its two fields
NewCgroupsManager(kind, config, paths) ==
    [kind |-> kind, Cgroups |-> config, Paths |-> paths]

\* the factory New(root, option) returns: Cgroupfs, then the option
NewFactory(root, option) ==
    [Root |-> root, NewCgroupsManager |-> option]

\* the directories that exist once New(root, ..) has run
NewDirs(root) == IF root # "" THEN MkdirAll(root) ELSE dirs

\* validate.ConfigValidator.Validate: the error, or Nil
Validate(config) ==
    IF config.wellFormed THEN Nil ELSE "invalid configuration"

\* os.Stat(path): Nil, or the ENOENT error
Stat(path) ==
    IF path \in dirs \/ path \in DOMAIN files THEN Nil ELSE "ENOENT"

\* Create up to the choice of the container root (lines 212-230):
\* the error kind and whether the container is rootless
CreateChecks(fac, id, config, uid, gid) ==
    IF fac.Root = "" THEN [err |-> "ConfigInvalid", rootless |-> FALSE]
    ELSE IF validateIDOf[id] # Nil THEN [err |-> validateIDOf[id], rootless |-> FALSE]
    ELSE IF Validate(config) # Nil THEN [err |-> "ConfigInvalid", rootless |-> FALSE]
    ELSE LET r == isRootless(config, uid, gid)
         IN  IF r[2] # Nil THEN [err |-> "ConfigInvalid", rootless |-> FALSE]
             ELSE IF r[1] /\ RootlessValidate(config) # Nil
                  THEN [err |-> "ConfigInvalid", rootless |-> FALSE]
             ELSE [err |-> Nil, rootless |-> r[1]]

\* the factory after RootlessCgroups(l) when rootless (lines 239-241)
FactoryAfterCreate(fac, rootless) ==
    IF rootless THEN [fac EXCEPT !.NewCgroupsManager = "rootless"] ELSE fac

\* the linuxContainer Create builds (lines 242-252)
NewContainer(fac, id, config, rootless) ==
    [id            |-> id,
     root          |-> containerRootOf[fac.Root, id],
     config        |-> config,
     cgroupManager |-> NewCgroupsManager(FactoryAfterCreate(fac, rootless).NewCgroupsManager,
                                         config.Cgroups, NilPtr),
     rootless      |-> rootless,
     state         |-> "stopped"]

CreateNoStat(id, config) ==
    LET chk == CreateChecks(l, id, config, euid, egid)
        containerRoot == containerRootOf[l.Root, id]
    IN  IF chk.err # Nil
        THEN /\ ret' = [op |-> "Create", id |-> id, config |-> config,
                        err |-> chk.err, c |-> NilPtr]
             /\ UNCHANGED <<euid, egid, l, dirs, files, containers, created, calls, arg, pipe, child>>
        ELSE LET c == NewContainer(l, id, config, chk.rootless)
             IN  /\ dirs' = MkdirAll(containerRoot)
                 /\ l' = FactoryAfterCreate(l, chk.rootless)
                 /\ containers' = containers \cup {c}
                 /\ created' = created \cup {containerRoot}
                 /\ ret' = [op |-> "Create", id |-> id, config |-> config,
                            err |-> Nil, c |-> c]
                 /\ UNCHANGED <<euid, egid, files, calls, arg, pipe, child>>

\* LinuxFactory.Create(id, config)
Create(id, config) ==
    LET chk == CreateChecks(l, id, config, euid, egid)
        containerRoot == containerRootOf[l.Root, id]
    IN  IF chk.err # Nil
        THEN /\ ret' = [op |-> "Create", id |-> id, config |-> config,
                        err |-> chk.err, c |-> NilPtr]
             /\ UNCHANGED <<euid, egid, l, dirs, files, containers, created, calls, arg, pipe, child>>
        ELSE IF Stat(containerRoot) = Nil
        THEN /\ ret' = [op |-> "Create", id |-> id, config |-> config,
                        err |-> "IdInUse", c |-> NilPtr]
             /\ UNCHANGED <<euid, egid, l, dirs, files, containers, created, calls, arg, pipe, child>>
        ELSE LET c == NewContainer(l, id, config, chk.rootless)
             IN  /\ dirs' = MkdirAll(containerRoot)
                 /\ l' = FactoryAfterCreate(l, chk.rootless)
                 /\ containers' = containers \cup {c}
                 /\ created' = created \cup {containerRoot}
                 /\ ret' = [op |-> "Create", id |-> id, config |-> config,
                            err |-> Nil, c |-> c]
                 /\ UNCHANGED <<euid, egid, files, calls, arg, pipe, child>>

loadStateNoNotExist(fac, id) ==
    LET path == stateFileOf[fac.Root, id]
    IN  IF path \in DOMAIN files /\ "Config" \in DOMAIN files[path]
        THEN <<files[path], Nil>>
        ELSE <<NilPtr, "SystemError">>

\* LinuxFactory.loadState(root), root the container root of id:
\* <<state, error kind>>
loadState(fac, id) ==
    LET path == stateFileOf[fac.Root, id]
    IN  IF path \in DOMAIN files
        THEN IF "Config" \in DOMAIN files[path]
             THEN <<files[path], Nil>>
             ELSE <<NilPtr, "SystemError">>
        ELSE IF path \in dirs THEN <<NilPtr, "SystemError">>
        ELSE <<NilPtr, "ContainerNotExists">>

\* linuxContainer.refreshState: the loaded container reconciled with the
\* init process of the state file
refreshState(c, state) ==
    [c EXCEPT !.state = IF state.InitProcessPid > 0 THEN "running" ELSE "stopped"]

\* the linuxContainer Load builds (lines 265-282)
LoadedContainer(fac, id, state) ==
    [id            |-> id,
     root          |-> containerRootOf[fac.Root, id],
     config        |-> state.Config,
     cgroupManager |-> NewCgroupsManager(fac.NewCgroupsManager,
                                         state.Config.Cgroups, state.CgroupPaths),
     rootless      |-> state.Rootless,
     state         |-> "loaded"]

\* LinuxFactory.Load(id)
Load(id) ==
    /\ IF l.Root = ""
       THEN ret' = [op |-> "Load", id |-> id, err |-> "ConfigInvalid", c |-> NilPtr]
       ELSE LET ls == loadState(l, id)
            IN  IF ls[2] # Nil
                THEN ret' = [op |-> "Load", id |-> id, err |-> ls[2], c |-> NilPtr]
                ELSE ret' = [op |-> "Load", id |-> id, err |-> Nil,
                             c |-> refreshState(LoadedContainer(l, id, ls[1]), ls[1])]
    /\ UNCHANGED <<euid, egid, l, dirs, files, containers, created, calls, arg, pipe, child>>

-----------------------------------------------------------------------------
(* the container's start, which saves the state file                       *)

InitPid == 4242

\* the paths a cgroupfs or systemd manager has resolved once applied
ResolvedPaths == [cpu |-> "/sys/fs/cgroup/cpu/user/c"]

\* the State that linuxContainer.currentState builds and saveState writes
currentState(c, pid) ==
    [ID             |-> c.id,
     InitProcessPid |-> pid,
     Config         |-> c.config,
     Rootless       |-> c.rootless,
     CgroupPaths    |-> IF c.cgroupManager.kind = "rootless"
                        THEN GetPaths(c.cgroupManager)
                        ELSE ResolvedPaths]

\* linuxContainer.Start on a stopped container the process holds: the init
\* process is spawned and put in its cgroups (Apply), and the state saved
Start(c) ==
    /\ c \in containers
    /\ c.state = "stopped"
    /\ LET e == IF c.cgroupManager.kind = "rootless"
                THEN Apply(c.cgroupManager, InitPid)
                ELSE Nil
       IN  IF e # Nil
           THEN /\ ret' = [op |-> "Start", id |-> c.id, err |-> "SystemError"]
                /\ UNCHANGED <<files, containers>>
           ELSE /\ files' = (stateFileOf[l.Root, c.id] :> currentState(c, InitPid)) @@ files
                /\ containers' = (containers \ {c}) \cup {[c EXCEPT !.state = "running"]}
                /\ ret' = [op |-> "Start", id |-> c.id, err |-> Nil]
    /\ UNCHANGED <<euid, egid, l, dirs, created, calls, arg, pipe, child>>

-----------------------------------------------------------------------------
(* the factory specification: processes that build a factory with New and  *)
(* call Create, Load and Start, one call after the other                   *)

\* the effective <<uid, gid>> a process runs with
Creds == { <<0, 0>>, <<1000, 1000>> }

\* Cgroupfs (the default), SystemdCgroups, RootlessCgroups
Options == { "fs", "systemd", "rootless" }

RootMapping(host) == <<[ContainerID |-> 0, HostID |-> host, Size |-> 1]>>

UserNsConfig ==
    [BaseConfig EXCEPT !.Namespaces = {"NEWNS", "NEWUSER"},
                       !.UidMappings = RootMapping(1000),
                       !.GidMappings = RootMapping(1000)]

\* the configs Create is called with
FactoryConfigs ==
    { BaseConfig,
      [BaseConfig EXCEPT !.wellFormed = FALSE],
      UserNsConfig,
      [UserNsConfig EXCEPT !.Cgroups = [Paths |-> NilPtr, Resources |-> [nonDefault |-> {5}]]] }

\* a process with effective ids cred starts and calls New(l.Root, option)
NewProcess(cred, option) ==
    /\ euid' = cred[1]
    /\ egid' = cred[2]
    /\ l' = NewFactory(l.Root, option)
    /\ dirs' = NewDirs(l.Root)
    /\ containers' = {}
    /\ ret' = [op |-> "New"]
    /\ UNCHANGED <<files, created, calls, arg, pipe, child>>

Init ==
    /\ \E cred \in Creds : euid = cred[1] /\ egid = cred[2]
    /\ \E root \in Roots, option \in Options :
          /\ l = NewFactory(root, option)
          /\ dirs = IF root # "" THEN Ancestors(root) ELSE { "/" }
    /\ files = <<>>
    /\ containers = {}
    /\ created = {}
    /\ calls = <<>>
    /\ arg = NoCall
    /\ ret = [op |-> "New"]
    /\ pipe = NoPipe
    /\ child = NoChild

Next ==
    \/ \E cred \in Creds, option \in Options : NewProcess(cred, option)
    \/ \E id \in Ids, config \in FactoryConfigs : Create(id, config)
    \/ \E id \in Ids : Load(id)
    \/ \E c \in containers : Start(c)

Spec == Init /\ [][Next]_vars

-----------------------------------------------------------------------------
(* Properties of Create and Load, checked under Spec.                      *)

\* the ids that match the allowed pattern and have at most maxIdLen characters
ValidIds == { id \in Ids : idRegexMatch(id) /\ Len(id) <= maxIdLen }

\* whether Create's checks of the config pass in a process of ids uid, gid
ConfigAccepted(config, uid, gid) ==
    /\ config.wellFormed
    /\ isRootless(config, uid, gid)[2] = Nil
    /\ isRootless(config, uid, gid)[1] => RootlessValidate(config) = Nil

C3_InvalidIdFormatAlways ==
    [][ (ret'.op = "Create" /\ ret'.id \notin ValidIds)
        => (ret'.err = "InvalidIdFormat" /\ dirs' = dirs /\ files' = files)
      ]_vars

\* C3 amended: for an id that violates the pattern or is too long, Create on
\* a factory with a non-empty root returns InvalidIdFormat (on a factory with
\* an empty root it returns ConfigInvalid, as for every id), and in both
\* cases it changes nothing in the filesystem.
C3_InvalidIdRejected ==
    [][ (ret'.op = "Create" /\ ret'.id \notin ValidIds)
        => /\ ret'.err = IF l.Root = "" THEN "ConfigInvalid" ELSE "InvalidIdFormat"
           /\ dirs' = dirs
           /\ files' = files
           /\ ret'.c = NilPtr
      ]_vars

\* a Create of an id of maxIdLen + 1 characters that returned InvalidIdFormat
C3_Witness ==
    /\ ret.op = "Create"
    /\ Len(ret.id) = maxIdLen + 1
    /\ ret.err = "InvalidIdFormat"

\* C9: the container Load returns uses the rootless cgroup manager iff the
\* rootless flag of the persisted state is true.
C9_LoadManagerFollowsFlag ==
    (ret.op = "Load" /\ ret.err = Nil) =>
        (ret.c.cgroupManager.kind = "rootless"
            <=> files[stateFileOf[l.Root, ret.id]].Rootless)

\* the container with this id that the process holds
Held(id) == { c \in containers : c.id = id }

\* C10 as stated: a successful Create writes the state file, and a Load of
\* the id directly after it succeeds with the same rootless flag and config.
C10_CreateThenLoad ==
    [][ /\ (ret'.op = "Create" /\ ret'.err = Nil)
            => stateFileOf[l.Root, ret'.id] \in DOMAIN files'
        /\ (ret.op = "Create" /\ ret.err = Nil /\ ret'.op = "Load" /\ ret'.id = ret.id)
            => /\ ret'.err = Nil
               /\ ret'.c.rootless = ret.c.rootless
               /\ ret'.c.config = ret.c.config
      ]_vars

\* C10 amended: a successful Create makes the container directory and writes
\* no state file, so a Load of the id directly after it returns
\* ContainerNotExists; a Load directly after the Start that saved the state
\* succeeds with the rootless flag and the config of the created container.
C10_LoadAfterStart ==
    [][ /\ (ret'.op = "Create" /\ ret'.err = Nil)
            => /\ files' = files
               /\ stateFileOf[l.Root, ret'.id] \notin DOMAIN files'
               /\ containerRootOf[l.Root, ret'.id] \in dirs'
        /\ (ret.op = "Create" /\ ret.err = Nil /\ ret'.op = "Load" /\ ret'.id = ret.id)
            => ret'.err = "ContainerNotExists"
        /\ (ret.op = "Start" /\ ret.err = Nil /\ ret'.op = "Load" /\ ret'.id = ret.id)
            => /\ ret'.err = Nil
               /\ \E c \in Held(ret.id) :
                     ret'.c.rootless = c.rootless /\ ret'.c.config = c.config
      ]_vars

\* a Load that returned ContainerNotExists for a container the process has
\* created and not started
C10_Witness ==
    /\ ret.op = "Load"
    /\ ret.err = "ContainerNotExists"
    /\ \E c \in Held(ret.id) : c.state = "stopped"

-----------------------------------------------------------------------------
(* the concurrent specification: processes of one user, each with its own   *)
(* factory on the same root, each in one call of Create, whose system calls *)
(* (the Stat and the MkdirAll) interleave                                   *)

Callers == 1..MaxCallers

ConcIds == { "c_1.+,-Z", Repeat("a", maxIdLen), ".", "c1/x" }

ConcConfigs == { BaseConfig, UserNsConfig }

\* a caller that has not called Create yet
IdleCall ==
    [pc |-> "idle", id |-> "", config |-> NilPtr, rootless |-> FALSE,
     err |-> Nil, c |-> NilPtr]

ConcInit ==
    /\ \E cred \in Creds : euid = cred[1] /\ egid = cred[2]
    /\ \E option \in Options : l = NewFactory("/run/runc", option)
    /\ dirs = Ancestors("/run/runc")
    /\ files = <<>>
    /\ containers = {}
    /\ created = {}
    /\ calls = [t \in Callers |-> IdleCall]
    /\ arg = NoCall
    /\ ret = [op |-> "New"]
    /\ pipe = NoPipe
    /\ child = NoChild

\* caller t enters Create(id, config) and runs it up to the Stat (lines 211-230)
CreateBegin(t, id, config) ==
    /\ calls[t].pc = "idle"
    /\ LET chk == CreateChecks(l, id, config, euid, egid)
       IN  calls' = [calls EXCEPT ![t] =
               IF chk.err # Nil
               THEN [IdleCall EXCEPT !.pc = "done", !.id = id, !.config = config,
                                     !.err = chk.err]
               ELSE [IdleCall EXCEPT !.pc = "stat", !.id = id, !.config = config,
                                     !.rootless = chk.rootless]]
    /\ UNCHANGED <<euid, egid, l, dirs, files, containers, created, ret, arg, pipe, child>>

\* caller t runs os.Stat(containerRoot) and returns IdInUse if it succeeds
\* (lines 231-235)
CreateStat(t) ==
    /\ calls[t].pc = "stat"
    /\ calls' = [calls EXCEPT ![t] =
           IF Stat(containerRootOf[l.Root, calls[t].id]) = Nil
           THEN [calls[t] EXCEPT !.pc = "done", !.err = "IdInUse"]
           ELSE [calls[t] EXCEPT !.pc = "mkdir"]]
    /\ UNCHANGED <<euid, egid, l, dirs, files, containers, created, ret, arg, pipe, child>>

\* caller t runs os.MkdirAll(containerRoot), which succeeds on a directory
\* that exists, and returns the container (lines 236-253)
CreateMkdir(t) ==
    /\ calls[t].pc = "mkdir"
    /\ dirs' = MkdirAll(containerRootOf[l.Root, calls[t].id])
    /\ calls' = [calls EXCEPT ![t] =
           [calls[t] EXCEPT
               !.pc = "done",
               !.c = NewContainer(l, calls[t].id, calls[t].config, calls[t].rootless)]]
    /\ created' = created \cup { containerRootOf[l.Root, calls[t].id] }
    /\ UNCHANGED <<euid, egid, l, files, containers, ret, arg, pipe, child>>

ConcNext ==
    \/ \E t \in Callers, id \in ConcIds, config \in ConcConfigs : CreateBegin(t, id, config)
    \/ \E t \in Callers : CreateStat(t)
    \/ \E t \in Callers : CreateMkdir(t)

ConcSpec == ConcInit /\ [][ConcNext]_vars

\* C2: of two concurrent Create calls with the same valid id and valid
\* configs, at most one returns a Container (the other returns IdInUse).
C2_AtMostOneCreates ==
    \A t1, t2 \in Callers :
        ( /\ t1 # t2
          /\ calls[t1].pc = "done"
          /\ calls[t2].pc = "done"
          /\ calls[t1].id = calls[t2].id
          /\ calls[t1].id \in ValidIds
          /\ ConfigAccepted(calls[t1].config, euid, egid)
          /\ ConfigAccepted(calls[t2].config, euid, egid) )
        => ~(calls[t1].err = Nil /\ calls[t2].err = Nil)

-----------------------------------------------------------------------------
(* the child init sequence: LinuxFactory.StartInitialization, run by the   *)
(* re-executed process, and the parent's end of the handoff channel        *)

\* the value of a decimal digit
DigitValue(c) == CHOOSE d \in 0..9 : Char("0123456789", d + 1) = c

RECURSIVE ParseUint(_, _)
\* the number the digits of s denote, after the digits that gave acc
ParseUint(s, acc) ==
    IF s = "" THEN acc
    ELSE ParseUint(SubSeq(s, 2, Len(s)), acc * 10 + DigitValue(Char(s, 1)))

\* strconv.Atoi(s): <<number, error>>
Atoi(s) ==
    LET signed == Len(s) > 0 /\ Char(s, 1) \in { "+", "-" }
        digits == IF signed THEN SubSeq(s, 2, Len(s)) ELSE s
    IN  IF digits = "" \/ \E k \in 1..Len(digits) : Char(digits, k) \notin Digits
        THEN <<0, "strconv.Atoi: parsing " \o s \o ": invalid syntax">>
        ELSE <<IF signed /\ Char(s, 1) = "-"
               THEN 0 - ParseUint(digits, 0) ELSE ParseUint(digits, 0), Nil>>

\* the values of _LIBCONTAINER_INITPIPE the child is started with
InitPipeValues == { "3", "", "pipe" }
\* the values of _LIBCONTAINER_INITTYPE the child is started with
InitTypeValues == { "standard", "setns", "bogus" }
\* what the parent has put in the channel for the child to read: an
\* initConfig document, a document that does not decode, the document null
HandoffData == { "config", "garbage", "null" }

\* the messages of the channel
syncT(type) == [rec |-> "sync", type |-> type]
newSystemError(err) == [rec |-> "error", Code |-> "SystemError", Message |-> err]

\* utils.WriteJSON(pipe, v): the channel after the write, and the error
\* (the write fails once the parent's end is closed)
WriteJSON(v) ==
    IF pipe.peer = "open"
    THEN <<[pipe EXCEPT !.msgs = Append(@, v)], Nil>>
    ELSE <<pipe, "EPIPE">>

\* newContainerInit(it, pipe): [i, err, panic]; the initer is built only
\* from handoff data that decodes and for a known init type; the document
\* null decodes to a nil config, whose use panics
newContainerInit(it, data) ==
    IF data = "garbage"
    THEN [i |-> NilPtr, err |-> "invalid character", panic |-> FALSE]
    ELSE IF data = "null"
    THEN [i |-> NilPtr, err |-> Nil, panic |-> TRUE]
    ELSE IF it = "setns"
    THEN [i |-> [type |-> "linuxSetnsInit"], err |-> Nil, panic |-> FALSE]
    ELSE IF it = "standard"
    THEN [i |-> [type |-> "linuxStandardInit"], err |-> Nil, panic |-> FALSE]
    ELSE [i |-> NilPtr, err |-> "unknown init type", panic |-> FALSE]

\* the deferred recover (lines 330-334): the error StartInitialization
\* returns with
recovered(err, panicked) ==
    IF panicked THEN "panic from initialization" ELSE err

\* where the deferred report (lines 312-328) starts: the sync token is
\* written only if i holds a *linuxStandardInit
deferredPc(i) ==
    IF i # NilPtr /\ i.type = "linuxStandardInit" THEN "writeSync" ELSE "writeError"

\* the child before StartInitialization
ChildStart(fdStr, it) ==
    [pc |-> "start",
     env |-> [INITPIPE |-> fdStr, INITTYPE |-> it],
     pipefd |-> 0, it |-> "", i |-> NilPtr, err |-> Nil]

InitInit ==
    /\ euid = 0
    /\ egid = 0
    /\ l = NewFactory("", "fs")
    /\ dirs = { "/" }
    /\ files = <<>>
    /\ containers = {}
    /\ created = {}
    /\ calls = <<>>
    /\ arg = NoCall
    /\ ret = NoCall
    /\ \E data \in HandoffData :
          pipe = [msgs |-> <<>>, closed |-> FALSE, peer |-> "open", data |-> data]
    /\ \E fdStr \in InitPipeValues, it \in InitTypeValues :
          child = ChildStart(fdStr, it)

\* lines 296-311: the environment is read and cleared; a channel number that
\* does not parse returns before any deferred function is registered
InitBegin ==
    /\ child.pc = "start"
    /\ LET a == Atoi(child.env.INITPIPE)
       IN  IF a[2] # Nil
           THEN child' = [child EXCEPT !.pc = "returned",
                              !.err = "error converting env var _LIBCONTAINER_INITPIPE"]
           ELSE child' = [child EXCEPT !.pc = "newContainerInit",
                              !.pipefd = a[1],
                              !.it = child.env.INITTYPE,
                              !.env = [INITPIPE |-> "", INITTYPE |-> ""]]
    /\ UNCHANGED <<euid, egid, l, dirs, files, containers, created, ret, calls, arg, pipe>>

\* lines 336-339: i, err = newContainerInit(it, pipe); i is assigned only
\* if the call returns
InitConstruct ==
    /\ child.pc = "newContainerInit"
    /\ LET r == newContainerInit(child.it, pipe.data)
       IN  IF r.panic \/ r.err # Nil
           THEN child' = [child EXCEPT
                              !.i = IF r.panic THEN child.i ELSE r.i,
                              !.err = recovered(r.err, r.panic),
                              !.pc = deferredPc(IF r.panic THEN child.i ELSE r.i)]
           ELSE child' = [child EXCEPT !.i = r.i, !.pc = "Init"]
    /\ UNCHANGED <<euid, egid, l, dirs, files, containers, created, ret, calls, arg, pipe>>

\* line 340: i.Init(s) replaces the process image, returns an error, or
\* panics
InitRun(outcome) ==
    /\ child.pc = "Init"
    /\ IF outcome = "exec"
       THEN child' = [child EXCEPT !.pc = "exec"]
       ELSE child' = [child EXCEPT
                          !.err = recovered("init failed", outcome = "panic"),
                          !.pc = deferredPc(child.i)]
    /\ UNCHANGED <<euid, egid, l, dirs, files, containers, created, ret, calls, arg, pipe>>

\* lines 317-322: the sync token of the standard init; a failed write
\* panics in the deferred function, past the recover
WriteSync ==
    /\ child.pc = "writeSync"
    /\ LET w == WriteJSON(syncT("procError"))
       IN  /\ pipe' = w[1]
           /\ child' = [child EXCEPT !.pc = IF w[2] # Nil THEN "panicked" ELSE "writeError"]
    /\ UNCHANGED <<euid, egid, l, dirs, files, containers, created, ret, calls, arg>>

\* lines 323-325: the terminal error record
WriteError ==
    /\ child.pc = "writeError"
    /\ LET w == WriteJSON(newSystemError(child.err))
       IN  /\ pipe' = w[1]
           /\ child' = [child EXCEPT !.pc = IF w[2] # Nil THEN "panicked" ELSE "close"]
    /\ UNCHANGED <<euid, egid, l, dirs, files, containers, created, ret, calls, arg>>

\* lines 326-327: pipe.Close(), and the return of err
ClosePipe ==
    /\ child.pc = "close"
    /\ pipe' = [pipe EXCEPT !.closed = TRUE]
    /\ child' = [child EXCEPT !.pc = "returned"]
    /\ UNCHANGED <<euid, egid, l, dirs, files, containers, created, ret, calls, arg>>

\* the parent closes its end of the channel (it gave up, or died)
ParentCloses ==
    /\ pipe.peer = "open"
    /\ child.pc \notin { "returned", "panicked", "exec" }
    /\ pipe' = [pipe EXCEPT !.peer = "closed"]
    /\ UNCHANGED <<euid, egid, l, dirs, files, containers, created, ret, calls, arg, child>>

InitNext ==
    \/ InitBegin
    \/ InitConstruct
    \/ \E outcome \in { "exec", "error", "panic" } : InitRun(outcome)
    \/ WriteSync
    \/ WriteError
    \/ ClosePipe
    \/ ParentCloses

InitSpec == InitInit /\ [][InitNext]_vars

\* the child init sequence has ended without replacing the process image
EndedWithoutExec == child.pc \in { "returned", "panicked" }

\* C11: every execution of StartInitialization that ends without replacing
\* the process image (error return, panic, failure to read the handoff
\* parameters, failure while writing to the channel) has written a
\* system-error record as the final message and then closed the channel.
C11_ErrorRecordThenClose ==
    EndedWithoutExec =>
        /\ pipe.msgs # <<>>
        /\ pipe.msgs[Len(pipe.msgs)].rec = "error"
        /\ pipe.closed

\* C13: when the init type names the standard variant and initialization
\* has failed at any point (the construction of the initializer included),
\* the sync token precedes the terminal error record; for any other init
\* type the terminal error record is the only message.
C13_SyncTokenFollowsSelector ==
    (child.pc = "returned" /\ pipe.closed) =>
        IF child.it = "standard"
        THEN /\ Len(pipe.msgs) = 2
             /\ pipe.msgs[1] = syncT("procError")
             /\ pipe.msgs[2].rec = "error"
        ELSE /\ Len(pipe.msgs) = 1
             /\ pipe.msgs[1].rec = "error"

-----------------------------------------------------------------------------
(* the listing: getContainers (list.go) over a factory root.  The owner,   *)
(* the creation time and the annotations of a row are left out.            *)

\* the root the listing is run on
ListRoot == "/run/runc"

\* the names an entry of the root may have, in the order of their bytes
\* (the order ioutil.ReadDir returns them in)
ListNames == << "*", Repeat("a", maxIdLen), "c_1.+,-Z" >>

\* what is at a name: nothing, a regular file, a directory without a state
\* file, a directory whose state file does not decode, a container's
\* directory with its state file
EntryKinds == { "absent", "file", "empty", "corrupt", "valid" }

\* what of a loaded container cannot be read
Unreadable == { "none", "status", "state" }

\* the state file of the container name, started with config BaseConfig
SavedState(name) ==
    currentState(NewContainer(NewFactory(ListRoot, "fs"), name, BaseConfig, FALSE), InitPid)

\* a state file that does not decode
CorruptState == [truncated |-> TRUE]

\* ioutil.ReadDir(root): the entries of root, sorted by name
ReadDir(root) ==
    LET Exists(name) ==
            \/ containerRootOf[root, name] \in dirs
            \/ containerRootOf[root, name] \in DOMAIN files
        Item(k) == [Name |-> ListNames[k],
                    IsDir |-> containerRootOf[root, ListNames[k]] \in dirs]
    IN  SelectSeq([k \in 1..Len(ListNames) |-> Item(k)], LAMBDA item : Exists(item.Name))

\* factory.Load(id) as a function: <<container, error>>
loadContainer(fac, id) ==
    IF fac.Root = "" THEN <<NilPtr, "ConfigInvalid">>
    ELSE LET ls == loadState(fac, id)
         IN  IF ls[2] # Nil THEN <<NilPtr, ls[2]>>
             ELSE <<refreshState(LoadedContainer(fac, id, ls[1]), ls[1]), Nil>>

\* container.Status(): <<status, error>>
Status(c) ==
    IF arg.unreadable[c.id] = "status" THEN <<"", "SystemError">> ELSE <<c.state, Nil>>

\* container.State(): <<state, error>>
State(fac, c) ==
    IF arg.unreadable[c.id] = "state" THEN <<NilPtr, "SystemError">>
    ELSE <<files[stateFileOf[fac.Root, c.id]], Nil>>

\* the row of an entry that could not be loaded (lines 125-131)
PlaceholderRow(name) ==
    [ID |-> name, InitProcessPid |-> -1, Status |-> "-", Bundle |-> "-"]

\* the row of a loaded container (lines 143-151)
FullRow(state, status) ==
    [ID |-> state.ID, InitProcessPid |-> state.InitProcessPid,
     Status |-> status, Bundle |-> "/bundle"]

RECURSIVE listLoop(_, _, _)
\* the loop of getContainers (lines 112-154) over the items left, s the
\* rows so far: [rows, err]
listLoop(fac, items, s) ==
    IF items = <<>> THEN [rows |-> s, err |-> Nil]
    ELSE LET item == Head(items)
             ld == loadContainer(fac, item.Name)
         IN  IF ~item.IsDir THEN listLoop(fac, Tail(items), s)
             ELSE IF ld[2] # Nil
             THEN listLoop(fac, Tail(items), Append(s, PlaceholderRow(item.Name)))
             ELSE IF Status(ld[1])[2] # Nil
             THEN [rows |-> <<>>, err |-> Status(ld[1])[2]]
             ELSE IF State(fac, ld[1])[2] # Nil
             THEN [rows |-> <<>>, err |-> State(fac, ld[1])[2]]
             ELSE listLoop(fac, Tail(items),
                           Append(s, FullRow(State(fac, ld[1])[1], Status(ld[1])[1])))

\* getContainers(context), the root of the context being ListRoot
getContainers ==
    /\ ret = NoCall
    /\ LET r == listLoop(l, ReadDir(l.Root), <<>>)
       IN  ret' = [op |-> "list", rows |-> r.rows, err |-> r.err]
    /\ UNCHANGED <<euid, egid, l, dirs, files, containers, created, calls, arg, pipe, child>>

\* a root whose entries are of the kinds kind[name]
ListInit ==
    /\ euid = 0
    /\ egid = 0
    /\ l = NewFactory(ListRoot, "fs")
    /\ containers = {}
    /\ created = {}
    /\ calls = <<>>
    /\ ret = NoCall
    /\ pipe = NoPipe
    /\ child = NoChild
    /\ \E kind \in [1..Len(ListNames) -> EntryKinds] :
          LET Of(k) == { ListNames[n] : n \in { n \in 1..Len(ListNames) : kind[n] = k } }
              stateFiles == { stateFileOf[ListRoot, name] : name \in Of("corrupt") \cup Of("valid") }
              entryFiles == { containerRootOf[ListRoot, name] : name \in Of("file") }
          IN  /\ dirs = Ancestors(ListRoot)
                        \cup { containerRootOf[ListRoot, name] :
                                 name \in Of("empty") \cup Of("corrupt") \cup Of("valid") }
              /\ files = [path \in stateFiles \cup entryFiles |->
                            IF \E name \in Of("valid") :
                                  /\ path = stateFileOf[ListRoot, name]
                            THEN SavedState(CHOOSE name \in Of("valid") :
                                                path = stateFileOf[ListRoot, name])
                            ELSE CorruptState]
              /\ \E unreadable \in [Of("valid") -> Unreadable] :
                    arg = [op |-> "list", unreadable |-> unreadable]

ListNext == getContainers

ListSpec == ListInit /\ [][ListNext]_vars

\* the subdirectories of the listed root, in order
Subdirs == SelectSeq(ReadDir(l.Root), LAMBDA item : item.IsDir)

\* whether the container of a subdirectory loads and can be read
Readable(name) ==
    /\ loadContainer(l, name)[2] = Nil
    /\ arg.unreadable[name] = "none"

\* C12: a listing returns exactly one row per subdirectory: a placeholder
\* row (status "-", pid -1) for every container that cannot be loaded or
\* whose status or state cannot be read, a full row for every other; a
\* failure on one entry neither aborts the listing nor drops other rows.
C12_OneRowPerSubdirectory ==
    ret.op = "list" =>
        /\ ret.err = Nil
        /\ Len(ret.rows) = Len(Subdirs)
        /\ \A k \in 1..Len(Subdirs) :
              /\ ret.rows[k].ID = Subdirs[k].Name
              /\ IF Readable(Subdirs[k].Name)
                 THEN ret.rows[k].Status # "-" /\ ret.rows[k].InitProcessPid # -1
                 ELSE ret.rows[k] = PlaceholderRow(Subdirs[k].Name)

====
